---- MODULE Spec2Model ----
(***************************************************************************)
(* Model of the coding-agent tutorial repository: the Session Shell        *)
(* (main / prompt), the Turn Loop (runAgent) and the Tool Executor         *)
(* (executeTool), in its three variants:                                   *)
(*   "single"   - the single-file agent            (src/unnamed/part_000)  *)
(*   "modular"  - examples/coding-agent            (agent.ts, tools.ts)    *)
(*   "enhanced" - the colourised agent with grep   (src/unnamed/part_001)  *)
(* Text is a sequence of tokens; an input line is a sequence of one-char   *)
(* strings; an optional argument is a sequence of length 0 or 1.           *)
(***************************************************************************)
EXTENDS Integers, Sequences, FiniteSets, TLC

\* ------------------------------------------------------------------ bounds
\* what the environment may spend in one behaviour: an input line costs 1,
\* a model reply costs 1 plus 1 per content block
MaxFuel == 5

\* ----------------------------------------------------------------- strings
Variants == {"single", "modular", "enhanced"}

WhitespaceChars == {" ", "\n"}

LowerOf(ch) ==
  CASE ch = "E" -> "e"
    [] ch = "X" -> "x"
    [] ch = "I" -> "i"
    [] ch = "T" -> "t"
    [] ch = "H" -> "h"
    [] ch = "L" -> "l"
    [] ch = "P" -> "p"
    [] ch = "C" -> "c"
    [] ch = "A" -> "a"
    [] ch = "R" -> "r"
    [] ch = "G" -> "g"
    [] ch = "O" -> "o"
    [] OTHER -> ch

toLowerCase(s) == [i \in 1..Len(s) |-> LowerOf(s[i])]

RECURSIVE trimStart(_)
trimStart(s) ==
  IF s # <<>> /\ Head(s) \in WhitespaceChars THEN trimStart(Tail(s)) ELSE s

RECURSIVE trimEnd(_)
trimEnd(s) ==
  IF s # <<>> /\ s[Len(s)] \in WhitespaceChars
    THEN trimEnd(SubSeq(s, 1, Len(s) - 1))
    ELSE s

trim(s) == trimEnd(trimStart(s))

RECURSIVE joinArgs(_, _)
joinArgs(args, sep) ==
  IF args = <<>> THEN <<>>
  ELSE IF Len(args) = 1 THEN args[1]
  ELSE args[1] \o sep \o joinArgs(Tail(args), sep)

\* the input lines and command-line arguments the model draws from
Lines ==
  { <<>>, <<" ">>,
    <<"e","x","i","t">>, <<"E","x","i","t">>, <<" ","e","x","i","t">>,
    <<"h","e","l","p">>, <<"c","l","e","a","r">>,
    <<"g","o">> }

Argvs == { <<>>, << <<"g">>, <<"o">> >>, << <<>>, <<"g">> >> }

\* only the single-file agent reads process.argv
ArgvsOf(v) == IF v = "single" THEN Argvs ELSE { <<>>, << <<"g">>, <<"o">> >> }

\* -------------------------------------------------------------- filesystem
\* process.cwd() captured once at module load
cwd == <<"/", "w">>

isAbsolute(p) == p # <<>> /\ p[1] = "/"

resolvePath(p) == IF isAbsolute(p) THEN p ELSE cwd \o p

FileA == <<"/", "w", "a">>
DirD == <<"/", "w", "d">>
FileDF == <<"/", "w", "d", "f">>
FileN == <<"/", "w", "n">>
DevDir == <<"/", "dev">>
DevNull == <<"/", "dev", "null">>
\* a tree to search: a nested directory, a hidden one, a dependency cache,
\* files with extensions and a file without read permission
DirT == <<"/", "w", "t">>
TreePaths ==
  { DirT, DirT \o <<"s">>, DirT \o <<"s", "g">>,
    DirT \o <<".git">>, DirT \o <<".git", "k">>,
    DirT \o <<"node_modules">>, DirT \o <<"node_modules", "m">>,
    DirT \o <<"p.ts">>, DirT \o <<"q.js">>, DirT \o <<"u">> }
TreeDirs == { DirT, DirT \o <<"s">>, DirT \o <<".git">>, DirT \o <<"node_modules">> }
FsPaths == { <<"/">>, cwd, FileA, DirD, FileDF, FileN, DevDir, DevNull } \cup TreePaths

\* a node: its kind, its text, and whether a mode bit of 0o111 is set
Absent == [kind |-> "absent", content |-> <<>>, exec |-> FALSE]
Dir == [kind |-> "dir", content |-> <<>>, exec |-> TRUE]
File(c) == [kind |-> "file", content |-> c, exec |-> FALSE]
ExecFile(c) == [kind |-> "file", content |-> c, exec |-> TRUE]
\* a character device that discards what is written and reads as empty
NullDevice == [kind |-> "chardev", content |-> <<>>, exec |-> FALSE]
\* a regular file the process may not open
LockedFile(c) == [kind |-> "locked", content |-> c, exec |-> FALSE]

\* a string is stored as UTF-8: an unpaired surrogate has no encoding and is
\* stored as U+FFFD; the stored text decodes to itself
LoneSurrogate == "\\uD800"
ReplacementChar == "\\uFFFD"
utf8Encode(t) ==
  [i \in 1..Len(t) |-> IF t[i] = LoneSurrogate THEN ReplacementChar ELSE t[i]]

InitFs ==
  [p \in FsPaths |->
     CASE p \in { <<"/">>, cwd, DirD, DevDir } \cup TreeDirs -> Dir
       [] p = DirT \o <<"u">> -> LockedFile(<<"bar">>)
       [] p = DirT \o <<"q.js">> -> File(<<"b", "\n", "bar", "baz">>)
       [] p \in TreePaths -> File(<<"bar">>)
       [] p = FileA -> File(<<"x">>)
       [] p = FileDF -> ExecFile(<<"foo", "\n", "b", "\n", "foo", "bar">>)
       [] p = DevNull -> NullDevice
       [] OTHER -> Absent]

Lookup(f, p) == IF p \in DOMAIN f THEN f[p] ELSE Absent

Parent(p) == SubSeq(p, 1, Len(p) - 1)

Ok(v) == [ok |-> TRUE, val |-> v]
Throw(m) == [ok |-> FALSE, val |-> m]

\* fs.readFileSync(path, "utf-8"); arg is an optional path
readFileSync(f, arg) ==
  IF arg = <<>> THEN Throw(<<"ERR_INVALID_ARG_TYPE">>)
  ELSE LET n == Lookup(f, resolvePath(arg[1])) IN
    CASE n.kind \in {"file", "chardev"} -> Ok(n.content)
      [] n.kind = "dir" -> Throw(<<"EISDIR">>)
      [] n.kind = "locked" -> Throw(<<"EACCES">>)
      [] OTHER -> Throw(<<"ENOENT">>)

\* mutant: the file is opened for appending
writeFileSync_Append(f, arg, data) ==
  IF arg = <<>> THEN Throw(<<"ERR_INVALID_ARG_TYPE">>)
  ELSE IF data = <<>> THEN Throw(<<"ERR_INVALID_ARG_TYPE">>)
  ELSE LET p == resolvePath(arg[1]) IN
    CASE Lookup(f, p).kind = "dir" -> Throw(<<"EISDIR">>)
      [] Lookup(f, p).kind = "chardev" -> Ok(f)
      [] Lookup(f, p).kind = "locked" -> Throw(<<"EACCES">>)
      [] Len(p) < 2 \/ Lookup(f, Parent(p)).kind # "dir" -> Throw(<<"ENOENT">>)
      [] p \notin DOMAIN f -> Throw(<<"ENOSPC">>)
      [] OTHER -> Ok([f EXCEPT ![p] = [kind |-> "file",
                                       content |-> f[p].content \o utf8Encode(data[1]),
                                       exec |-> f[p].kind = "file" /\ f[p].exec]])

\* fs.writeFileSync(path, data): the new filesystem, or the error thrown
writeFileSync(f, arg, data) ==
  IF arg = <<>> THEN Throw(<<"ERR_INVALID_ARG_TYPE">>)
  ELSE IF data = <<>> THEN Throw(<<"ERR_INVALID_ARG_TYPE">>)
  ELSE LET p == resolvePath(arg[1]) IN
    CASE Lookup(f, p).kind = "dir" -> Throw(<<"EISDIR">>)
      [] Lookup(f, p).kind = "chardev" -> Ok(f)
      [] Lookup(f, p).kind = "locked" -> Throw(<<"EACCES">>)
      [] Len(p) < 2 \/ Lookup(f, Parent(p)).kind # "dir" -> Throw(<<"ENOENT">>)
      [] p \notin DOMAIN f -> Throw(<<"ENOSPC">>)
      [] OTHER -> Ok([f EXCEPT ![p] = [kind |-> "file", content |-> utf8Encode(data[1]),
                                       exec |-> f[p].kind = "file" /\ f[p].exec]])

Children(f, p) ==
  { q \in DOMAIN f : /\ Len(q) = Len(p) + 1
                     /\ SubSeq(q, 1, Len(p)) = p
                     /\ f[q].kind # "absent" }

RECURSIVE SetToSeq(_)
SetToSeq(S) ==
  IF S = {} THEN <<>>
  ELSE LET x == CHOOSE y \in S : TRUE IN <<x>> \o SetToSeq(S \ {x})

\* fs.readdirSync(path, { withFileTypes: true }): [name, isDirectory] entries
readdirSync(f, arg) ==
  IF arg = <<>> THEN Throw(<<"ERR_INVALID_ARG_TYPE">>)
  ELSE LET p == resolvePath(arg[1])
           n == Lookup(f, p) IN
    CASE n.kind = "dir" ->
           Ok([i \in 1..Cardinality(Children(f, p)) |->
                 LET q == SetToSeq(Children(f, p))[i] IN
                 [name |-> q[Len(q)], isDirectory |-> f[q].kind = "dir",
                  executable |-> f[q].exec]])
      [] n.kind \in {"file", "chardev", "locked"} -> Throw(<<"ENOTDIR">>)
      [] OTHER -> Throw(<<"ENOENT">>)

RECURSIVE joinLines(_)
joinLines(ls) ==
  IF ls = <<>> THEN <<>>
  ELSE IF Len(ls) = 1 THEN ls[1]
  ELSE ls[1] \o <<"\n">> \o joinLines(Tail(ls))

\* ----------------------------------------------------------- tool executor
\* ./colors is not part of the sources: an ANSI wrapper around the text
colorize(style, t) == <<"ESC[", style>> \o t \o <<"ESC[", "reset">>

DeclaredTools(v) ==
  IF v = "enhanced"
    THEN {"list_dir", "read_file", "write_file", "bash", "grep_search"}
    ELSE {"read_file", "write_file", "list_dir", "bash"}

Ret(t, f) == [result |-> t, fs |-> f]

ReadFileTool(v, input, f) ==
  LET r == readFileSync(f, input.path) IN
  IF r.ok THEN Ret(r.val, f)
  ELSE IF v = "enhanced"
    THEN Ret(colorize("error", <<"Error reading file: ", "Error: ">> \o r.val), f)
    ELSE Ret(<<"Error: ">> \o r.val, f)

ContentMissing(input) == input.content = <<>>

WriteFileTool(v, input, f) ==
  IF v # "single" /\ ContentMissing(input)
    THEN LET m == <<"Error: content parameter is required but was not provided">> IN
         Ret(IF v = "enhanced" THEN colorize("error", m) ELSE m, f)
  ELSE LET r == writeFileSync(f, input.path, input.content) IN
    IF r.ok
      THEN LET m == <<"Written to ">> \o input.path[1] IN
           Ret(IF v = "enhanced" THEN colorize("success", <<"OK ">> \o m) ELSE m, r.val)
    ELSE IF v = "enhanced"
      THEN Ret(colorize("error", <<"Error writing file: ", "Error: ">> \o r.val), f)
      ELSE Ret(<<"Error: ">> \o r.val, f)

\* mutant: a directory is listed by its bare name
ListDirEntry_NoSlash(v, e) ==
  IF v = "enhanced"
    THEN IF e.isDirectory THEN colorize("directory", <<e.name>>)
         ELSE IF e.executable THEN colorize("executable", <<e.name>>)
         ELSE colorize("file", <<e.name>>)
    ELSE <<e.name>>

\* one line of a listing: the name, with / after a directory's
ListDirEntry(v, e) ==
  IF v = "enhanced"
    THEN IF e.isDirectory THEN colorize("directory", <<e.name, "/">>)
         ELSE IF e.executable THEN colorize("executable", <<e.name>>)
         ELSE colorize("file", <<e.name>>)
    ELSE IF e.isDirectory THEN <<e.name, "/">> ELSE <<e.name>>

ListDirTool(v, input, f) ==
  LET r == readdirSync(f, input.path) IN
  IF r.ok
    THEN Ret(joinLines([i \in 1..Len(r.val) |-> ListDirEntry(v, r.val[i])]), f)
  ELSE IF v = "enhanced"
    THEN Ret(colorize("error", <<"Error reading directory: ", "Error: ">> \o r.val), f)
    ELSE Ret(<<"Error: ">> \o r.val, f)

\* content.split("\n"): the lines of a text, at least one
RECURSIVE splitLines(_)
splitLines(t) ==
  IF \A i \in 1..Len(t) : t[i] # "\n" THEN <<t>>
  ELSE LET k == CHOOSE i \in 1..Len(t) :
                  t[i] = "\n" /\ \A j \in 1..(i - 1) : t[j] # "\n"
       IN <<SubSeq(t, 1, k - 1)>> \o splitLines(SubSeq(t, k + 1, Len(t)))

\* new RegExp(pattern, flags): a pattern is one token, "(" does not compile,
\* a missing pattern compiles to the expression that matches everywhere
BadRegex == "("
RegexCompiles(pattern) == pattern = <<>> \/ pattern[1] # BadRegex
PatternText(pattern) == IF pattern = <<>> THEN <<"undefined">> ELSE pattern
Matches(pattern, line) == pattern = <<>> \/ \E i \in 1..Len(line) : line[i] = pattern[1]

\* path.relative(cwd, filePath)
relative(p) ==
  IF Len(p) >= Len(cwd) /\ SubSeq(p, 1, Len(cwd)) = cwd
    THEN SubSeq(p, Len(cwd) + 1, Len(p))
    ELSE <<"..">> \o Tail(p)

RECURSIVE highlight(_, _)
highlight(pattern, line) ==
  IF line = <<>> THEN <<>>
  ELSE (IF pattern # <<>> /\ Head(line) = pattern[1]
          THEN colorize("highlight", <<Head(line)>>)
          ELSE <<Head(line)>>)
       \o highlight(pattern, Tail(line))

\* path.extname of the file names of the model
extname(name) ==
  CASE name = "p.ts" -> ".ts"
    [] name = "q.js" -> ".js"
    [] OTHER -> ""

Contains(t, tok) == \E k \in 1..Len(t) : t[k] = tok

\* mutant: the line is cited by its index in the array of lines
searchInFile_ZeroBased(f, p, pattern, exts) ==
  IF Lookup(f, p).kind # "file" THEN <<>>
  ELSE IF exts # <<>> /\ ~Contains(exts, extname(p[Len(p)])) THEN <<>>
  ELSE LET lines == splitLines(Lookup(f, p).content)
           hits == SelectSeq([i \in 1..Len(lines) |-> i],
                             LAMBDA i : Matches(pattern, lines[i]))
       IN [k \in 1..Len(hits) |->
             colorize("file", relative(p)) \o <<":">>
             \o colorize("info", <<ToString(hits[k] - 1)>>) \o <<":">>
             \o highlight(pattern, lines[hits[k]])]

\* searchInFile: one result per matching line; a file outside a nonempty
\* extension list is not read; a file that cannot be read is skipped
searchInFile(f, p, pattern, exts) ==
  IF Lookup(f, p).kind \notin {"file", "locked"} THEN <<>>
  ELSE IF exts # <<>> /\ ~Contains(exts, extname(p[Len(p)])) THEN <<>>
  ELSE IF ~readFileSync(f, <<p>>).ok THEN <<>>
  ELSE LET lines == splitLines(Lookup(f, p).content)
           hits == SelectSeq([i \in 1..Len(lines) |-> i],
                             LAMBDA i : Matches(pattern, lines[i]))
       IN [k \in 1..Len(hits) |->
             colorize("file", relative(p)) \o <<":">>
             \o colorize("info", <<ToString(hits[k])>>) \o <<":">>
             \o highlight(pattern, lines[hits[k]])]

\* mutant: only hidden directories are left out
SkippedNames_OnlyHidden == {".git"}
\* the directory names never entered: hidden ones and node_modules
SkippedNames == {".git", "node_modules"}

\* searchDirectory: files first to last in directory order, directories
\* entered when recursive; unreadable directories are skipped
RECURSIVE searchDirectory(_, _, _, _, _)
searchDirectory(f, p, pattern, recursive, exts) ==
  LET entries == SetToSeq(Children(f, p))
      F[i \in 0..Len(entries)] ==
        IF i = 0 THEN <<>>
        ELSE LET q == entries[i] IN
          F[i - 1] \o
          (CASE f[q].kind \in {"file", "locked"} -> searchInFile(f, q, pattern, exts)
             [] f[q].kind = "dir" /\ recursive /\ q[Len(q)] \notin SkippedNames
                  -> searchDirectory(f, q, pattern, recursive, exts)
             [] OTHER -> <<>>)
  IN F[Len(entries)]

\* the grep_search case; recursive is true unless given, file_extensions
\* empty unless given, the case_sensitive argument is left at its default
GrepSearchTool(input, f) ==
  IF input.path = <<>>
    THEN Ret(colorize("error", <<"Error during search: ", "TypeError: ", "ERR_INVALID_ARG_TYPE">>), f)
  ELSE IF ~RegexCompiles(input.pattern)
    THEN Ret(colorize("error", <<"Invalid regex pattern: ", "SyntaxError: ">> \o input.pattern), f)
  ELSE LET target == resolvePath(input.path[1])
           recursive == IF input.recursive = <<>> THEN TRUE ELSE input.recursive[1]
           results == CASE Lookup(f, target).kind \in {"file", "locked"}
                             -> searchInFile(f, target, input.pattern, input.file_extensions)
                        [] Lookup(f, target).kind = "dir"
                             -> searchDirectory(f, target, input.pattern, recursive,
                                                input.file_extensions)
                        [] OTHER -> <<>>
       IN
    IF Lookup(f, target).kind = "absent"
      THEN Ret(colorize("error", <<"Error during search: ", "Error: ", "ENOENT">>), f)
    ELSE IF Lookup(f, target).kind = "chardev"
      THEN Ret(colorize("error", <<"Path is neither a file nor a directory: ">> \o target), f)
    ELSE IF results = <<>>
      THEN Ret(colorize("warning", <<"No matches found for pattern: ">>
                                     \o PatternText(input.pattern)), f)
    ELSE Ret(colorize("success", <<"Found ", ToString(Len(results)),
                                   " matches for pattern: ">> \o PatternText(input.pattern))
             \o <<"\n", "\n">> \o joinLines(results), f)

UnknownTool(v, name) ==
  IF v = "enhanced" THEN colorize("error", <<"Unknown tool: ", name>>)
                    ELSE <<"Unknown tool: ", name>>

\* mutant: the switch has no case for list_dir
ExecuteSync_NoListDir(v, name, input, f) ==
  CASE name = "read_file" -> ReadFileTool(v, input, f)
    [] name = "write_file" -> WriteFileTool(v, input, f)
    [] name = "grep_search" /\ v = "enhanced" -> GrepSearchTool(input, f)
    [] OTHER -> Ret(UnknownTool(v, name), f)

\* the synchronous cases of executeTool's switch
ExecuteSync(v, name, input, f) ==
  CASE name = "read_file" -> ReadFileTool(v, input, f)
    [] name = "write_file" -> WriteFileTool(v, input, f)
    [] name = "list_dir" -> ListDirTool(v, input, f)
    [] name = "grep_search" /\ v = "enhanced" -> GrepSearchTool(input, f)
    [] OTHER -> Ret(UnknownTool(v, name), f)

\* mutant: the standard-error section is left out
BashCloseText_DropStderr(v, o) ==
  IF v = "enhanced"
    THEN (IF o.code = "0" THEN colorize("success", <<"OK Exit code: ", o.code>>)
                        ELSE colorize("error", <<"X Exit code: ", o.code>>))
         \o (IF trim(o.stdout) # <<>> THEN <<"\n">> \o trim(o.stdout) ELSE <<>>)
    ELSE <<"Exit code: ", o.code, "\n">> \o o.stdout

\* the promise returned by the bash case, and the text each listener resolves
BashCloseText(v, o) ==
  IF v = "enhanced"
    THEN (IF o.code = "0" THEN colorize("success", <<"OK Exit code: ", o.code>>)
                        ELSE colorize("error", <<"X Exit code: ", o.code>>))
         \o (IF trim(o.stdout) # <<>> THEN <<"\n">> \o trim(o.stdout) ELSE <<>>)
         \o (IF trim(o.stderr) # <<>>
               THEN <<"\n">> \o colorize("error", <<"Stderr:">>) \o <<" ">> \o trim(o.stderr)
               ELSE <<>>)
    ELSE <<"Exit code: ", o.code, "\n">> \o o.stdout
         \o (IF o.stderr # <<>> THEN <<"\nStderr: ">> \o o.stderr ELSE <<>>)

BashErrorText(v, o) == <<"Error: ", "spawn bash ENOENT">>

\* proc.on("error", ...) is registered by the single-file and modular bash case only
HasErrorListener(v) == v # "enhanced"

\* what the operating system can do with spawn("bash", ["-c", command])
BashOutcomes ==
  { [spawned |-> TRUE, code |-> "7", stdout |-> <<"out">>, stderr |-> <<"err">>],
    [spawned |-> FALSE, code |-> "-2", stdout |-> <<>>, stderr |-> <<>>] }

SpawnFailure == [spawned |-> FALSE, code |-> "-2", stdout |-> <<>>, stderr |-> <<>>]
Exited(code, out, err) == [spawned |-> TRUE, code |-> code, stdout |-> out, stderr |-> err]

ExitZero == <<"exit 0">>
ExitSeven == <<"exit 7">>
EchoBlank == <<"echo; echo out; echo >&2">>
LsMissing == <<"ls missing">>

\* what running the command can give: the shell decides code and output of
\* the commands the model knows, the operating system whether bash starts
Outcomes(command) ==
  CASE command = <<ExitZero>> -> {Exited("0", <<>>, <<>>), SpawnFailure}
    [] command = <<ExitSeven>> -> {Exited("7", <<>>, <<>>), SpawnFailure}
    [] command = <<EchoBlank>> -> {Exited("0", <<"\n", "out", "\n">>, <<"\n">>)}
    [] command = <<LsMissing>> -> {Exited("2", <<>>, <<"ls: missing", "\n">>)}
    [] OTHER -> BashOutcomes

ProcEvents(o) == IF o.spawned THEN {"close"} ELSE {"error", "close"}

\* ------------------------------------------------------------ model replies
NoInput == [path |-> <<>>, content |-> <<>>, command |-> <<>>, pattern |-> <<>>,
            recursive |-> <<>>, file_extensions |-> <<>>]
NoId == <<0, 0>>

TextBlock == [type |-> "text", name |-> "", input |-> NoInput]
ToolUse(n, in) == [type |-> "tool_use", name |-> n, input |-> in]

\* the content blocks a reply is drawn from (identifiers are added per reply)
LoopBlocks ==
  { TextBlock,
    ToolUse("read_file", [NoInput EXCEPT !.path = << <<"n">> >>]),
    ToolUse("bash", [NoInput EXCEPT !.command = << <<"c">> >>]),
    ToolUse("delete_file", [NoInput EXCEPT !.path = << <<"a">> >>]) }

\* response.stop_reason is read by the single-file agent only
StopReasons(v) == IF v = "single" THEN {"end_turn", "tool_use"} ELSE {"unread"}

ReplyCost(bs) == 1 + Len(bs)

BlockSeqs(budget) == UNION { [1..n -> LoopBlocks] : n \in 0..(budget - 1) }

\* the endpoint gives every tool_use block of a conversation its own identifier
WithIds(k, bs) ==
  [i \in 1..Len(bs) |->
     [type |-> bs[i].type, name |-> bs[i].name, input |-> bs[i].input,
      id |-> IF bs[i].type = "tool_use" THEN <<k, i>> ELSE NoId]]

IsToolUse(b) == b.type = "tool_use"

HasToolUseBlock(content) == \E i \in 1..Len(content) : IsToolUse(content[i])

ToolUseIds(content) ==
  LET F[i \in 0..Len(content)] ==
        IF i = 0 THEN <<>>
        ELSE IF IsToolUse(content[i]) THEN Append(F[i - 1], content[i].id)
        ELSE F[i - 1]
  IN F[Len(content)]

\* ------------------------------------------------------------------- state
VARIABLES
  variant,        \* which of the three programs runs
  argv,           \* process.argv.slice(2)
  mode,           \* "none", "oneshot" or "interactive"
  shell,          \* "start", "prompting", "running", "closed", "exited", "crashed"
  fuel,           \* what the environment may still spend
  lastInput,      \* the line the callback was last invoked with
  runs,           \* runAgent invocations so far
  reported,       \* failures caught and printed by the shell
  pc,             \* runAgent: "idle", "call", "awaitModel", "process", "awaitTool", "returned", "threw"
  messages,       \* runAgent's transcript
  response,       \* the reply being processed
  idx,            \* position of the for loop in response.content
  hasToolUse,
  toolResults,
  issued,         \* model requests issued by the current run
  toolResponses,  \* replies with a tool_use block received by the current run
  totalIssued,    \* model requests issued since the process started
  toolCount,      \* tool_use blocks received since the process started
  request,        \* what the last client.messages.create call was given
  execLog,        \* tool executions started and ended for the current reply
  proc,           \* events the current bash child can still emit
  promise,        \* the bash promise: [resolved, value]
  late,           \* events still to come from children whose promise was consumed
  modelInFlight,
  toolInFlight,
  fs,
  sessionStats

shellVars == <<variant, argv, mode, shell, fuel, lastInput, runs, reported>>
loopVars == <<pc, messages, response, idx, hasToolUse, toolResults, issued,
              toolResponses, execLog>>
countVars == <<totalIssued, toolCount, request>>
toolVars == <<proc, promise, late, toolInFlight, fs>>
vars == <<shellVars, loopVars, countVars, toolVars, modelInFlight, sessionStats>>

NoResponse == [content |-> <<>>, stop_reason |-> "unread"]
Unresolved == [resolved |-> FALSE, value |-> <<>>]
NoProc == [outcome |-> [spawned |-> FALSE, code |-> "", stdout |-> <<>>, stderr |-> <<>>],
           pending |-> {}]

\* the system prompt of every request: a text around the working directory
SystemPrompt(v) ==
  <<"You are a coding assistant. Working directory: ">> \o cwd
    \o (IF v = "enhanced" THEN <<". ">> ELSE <<"\n">>)
    \o <<"Use tools to help the user. Be concise.">>

\* the arguments of client.messages.create
Request(v, msgs) == [system |-> SystemPrompt(v), tools |-> DeclaredTools(v), messages |-> msgs]
\* the statistics main starts with
NoStats == [totalTokens |-> 0, requestCount |-> 0, currentConversationTokens |-> 0]
NoRequest == [system |-> <<>>, tools |-> {}, messages |-> <<>>]

Init ==
  /\ variant \in Variants
  /\ argv \in ArgvsOf(variant)
  /\ mode = "none"
  /\ shell = "start"
  /\ fuel = MaxFuel
  /\ lastInput = <<>>
  /\ runs = 0
  /\ reported = 0
  /\ pc = "idle"
  /\ messages = <<>>
  /\ response = NoResponse
  /\ idx = 0
  /\ hasToolUse = FALSE
  /\ toolResults = <<>>
  /\ issued = 0
  /\ toolResponses = 0
  /\ totalIssued = 0
  /\ toolCount = 0
  /\ request = NoRequest
  /\ execLog = <<>>
  /\ proc = NoProc
  /\ promise = Unresolved
  /\ late = {}
  /\ modelInFlight = 0
  /\ toolInFlight = 0
  /\ fs = InitFs
  /\ sessionStats = NoStats

\* ------------------------------------------------------------ session shell
UserText(t) == [role |-> "user", kind |-> "text", text |-> t, blocks |-> <<>>]
UserBlocks(bs) == [role |-> "user", kind |-> "blocks", text |-> <<>>, blocks |-> bs]
AssistantTurn(bs) == [role |-> "assistant", kind |-> "blocks", text |-> <<>>, blocks |-> bs]

ExitWord == <<"e","x","i","t">>
ClearWord == <<"c","l","e","a","r">>
HelpWord == <<"h","e","l","p">>

\* mutant: `exit` is compared without toLowerCase()
LineDisposition_CaseSensitive(v, input) ==
  IF input = ExitWord THEN "exit"
  ELSE IF v = "enhanced" /\ toLowerCase(input) \in {ClearWord, HelpWord} THEN "builtin"
  ELSE IF trim(input) # <<>> THEN "run"
  ELSE "blank"

\* mutant: the blank test forgets trim()
LineDisposition_NoTrim(v, input) ==
  IF toLowerCase(input) = ExitWord THEN "exit"
  ELSE IF v = "enhanced" /\ toLowerCase(input) \in {ClearWord, HelpWord} THEN "builtin"
  ELSE IF input # <<>> THEN "run"
  ELSE "blank"

\* what the question callback does with a line
LineDisposition(v, input) ==
  IF toLowerCase(input) = ExitWord THEN "exit"
  ELSE IF v = "enhanced" /\ toLowerCase(input) \in {ClearWord, HelpWord} THEN "builtin"
  ELSE IF trim(input) # <<>> THEN "run"
  ELSE "blank"

\* process.argv[2] is truthy: only the single-file agent looks at it
OneShot(v, av) == v = "single" /\ av # <<>> /\ av[1] # <<>>

\* const messages = [{ role: "user", content: userMessage }]; ... while (true)
\* mutant: the new prompt is added to the transcript of the run before
StartRun_KeepTranscript(userMessage) ==
  /\ messages' = Append(messages, UserText(userMessage))
  /\ pc' = "call"
  /\ issued' = 0
  /\ toolResponses' = 0
  /\ runs' = runs + 1
  /\ UNCHANGED <<response, idx, hasToolUse, toolResults, execLog>>

\* runAgent(userMessage, ...) up to its loop: a transcript of its own
StartRun(userMessage) ==
  /\ messages' = << UserText(userMessage) >>
  /\ pc' = "call"
  /\ issued' = 0
  /\ toolResponses' = 0
  /\ runs' = runs + 1
  /\ UNCHANGED <<response, idx, hasToolUse, toolResults, execLog>>

Main ==
  /\ shell = "start"
  /\ IF OneShot(variant, argv)
       THEN /\ mode' = "oneshot"
            /\ shell' = "running"
            /\ StartRun(joinArgs(argv, <<" ">>))
       ELSE /\ mode' = "interactive"
            /\ shell' = "prompting"
            /\ UNCHANGED <<runs, loopVars>>
  /\ UNCHANGED <<variant, argv, fuel, lastInput, reported, countVars,
                 toolVars, modelInFlight, sessionStats>>

\* mutant: prompt() is called again without awaiting runAgent
QuestionPending_NoAwait == shell \in {"prompting", "running"}

\* rl.question is armed by prompt() only, which the callback calls last:
\* a line reaches the callback exactly while the shell is "prompting"
QuestionPending == shell = "prompting"

Line(input) ==
  /\ QuestionPending
  /\ fuel >= 1
  /\ fuel' = fuel - 1
  /\ lastInput' = input
  /\ LET d == LineDisposition(variant, input) IN
       CASE d = "exit" -> shell' = "closed" /\ UNCHANGED <<runs, loopVars>>
         [] d = "run" -> shell' = "running" /\ StartRun(input)
         [] OTHER -> shell' = "prompting" /\ UNCHANGED <<runs, loopVars>>
  /\ UNCHANGED <<variant, argv, mode, reported, countVars, toolVars,
                 modelInFlight, sessionStats>>

\* where the shell continues once runAgent's promise is fulfilled
AfterReturn(m) == IF m = "interactive" THEN "prompting" ELSE "exited"

\* the shell's reaction to a rejected runAgent promise: only the enhanced
\* callback wraps the await in try/catch; the one-shot rejection reaches
\* main().catch(console.error); elsewhere the rejection is unhandled
AfterThrow(v, m) ==
  IF m = "oneshot" THEN [shell |-> "exited", reported |-> 1]
  ELSE IF v = "enhanced" THEN [shell |-> "prompting", reported |-> 1]
  ELSE [shell |-> "crashed", reported |-> 0]

\* the process has ended: the one-shot main returned or its rejection was
\* handled by main().catch, readline was closed, or the runtime killed the
\* process for an uncaught exception or an unhandled rejection
Terminated == shell \in {"exited", "closed", "crashed"}

\* the exit code of an ended process: nobody sets process.exitCode, and
\* main().catch(console.error) only prints, so every end but the runtime's
\* own abort leaves 0
ExitCode(sh) ==
  CASE sh = "crashed" -> 1
    [] sh \in {"exited", "closed"} -> 0

\* --------------------------------------------------------------- turn loop
Running == shell = "running"

IssueCall ==
  /\ Running /\ pc = "call"
  /\ issued' = issued + 1
  /\ totalIssued' = totalIssued + 1
  /\ modelInFlight' = modelInFlight + 1
  /\ sessionStats' = IF variant = "modular"
                       THEN [sessionStats EXCEPT !.requestCount = @ + 1]
                       ELSE sessionStats
  /\ request' = Request(variant, messages)
  /\ pc' = "awaitModel"
  /\ UNCHANGED <<shellVars, messages, response, idx, hasToolUse, toolResults,
                 toolResponses, toolCount, execLog, toolVars>>

\* countTokens of @anthropic-ai/tokenizer: a text is a sequence of tokens
countTokens(t) == Len(t)

\* the texts calculateTokenUsage reads: the text of a text block is one
\* token, JSON.stringify of a value one token and one more per field given
BlockText == <<"text">>
JsonInput(input) ==
  <<"{">> \o input.path \o input.content \o input.command \o input.pattern
    \o input.recursive \o input.file_extensions
JsonTools(v) == SetToSeq(DeclaredTools(v))

\* the sum of a sequence of numbers
RECURSIVE Sum(_)
Sum(ns) == IF ns = <<>> THEN 0 ELSE Head(ns) + Sum(Tail(ns))

\* calculateTokenUsage(messages, systemPrompt, response)
calculateTokenUsage(v, msgs, system, resp) ==
  LET InBlock(b) == CASE b.type = "text" -> countTokens(BlockText)
                      [] b.type = "tool_result" -> countTokens(b.content)
                      [] OTHER -> 0
      InTurn(m) == IF m.kind = "text" THEN countTokens(m.text)
                   ELSE Sum([i \in 1..Len(m.blocks) |-> InBlock(m.blocks[i])])
      OutBlock(b) == CASE b.type = "text" -> countTokens(BlockText)
                       [] b.type = "tool_use" -> Len(JsonInput(b.input))
                       [] OTHER -> 0
      inputTokens == countTokens(system)
                     + Sum([i \in 1..Len(msgs) |-> InTurn(msgs[i])])
                     + countTokens(JsonTools(v))
      outputTokens == Sum([i \in 1..Len(resp.content) |-> OutBlock(resp.content[i])])
  IN [inputTokens |-> inputTokens, outputTokens |-> outputTokens,
      totalTokens |-> inputTokens + outputTokens]

\* updateContextUsage(tokenUsage, sessionStats)
updateContextUsage(usage, stats) ==
  [stats EXCEPT !.totalTokens = @ + usage.totalTokens,
                !.currentConversationTokens = @ + usage.inputTokens,
                !.requestCount = @ + 1]

ModelRespond(bs, sr) ==
  /\ Running /\ pc = "awaitModel"
  /\ fuel >= ReplyCost(bs)
  /\ fuel' = fuel - ReplyCost(bs)
  /\ modelInFlight' = modelInFlight - 1
  /\ response' = [content |-> WithIds(issued, bs), stop_reason |-> sr]
  /\ sessionStats' =
       IF variant = "modular"
         THEN updateContextUsage(
                calculateTokenUsage(variant, messages, SystemPrompt(variant), response'),
                sessionStats)
         ELSE sessionStats
  /\ hasToolUse' = FALSE
  /\ toolResults' = <<>>
  /\ idx' = 1
  /\ execLog' = <<>>
  /\ toolResponses' = toolResponses + (IF HasToolUseBlock(bs) THEN 1 ELSE 0)
  /\ toolCount' = toolCount + Len(ToolUseIds(WithIds(issued, bs)))
  /\ pc' = "process"
  /\ UNCHANGED <<variant, argv, mode, shell, lastInput, runs, reported,
                 messages, issued, totalIssued, request, toolVars>>

\* mutant: the request is wrapped in a retry
OnRequestError_Retry == "call"

\* `await client.messages.create(...)` stands in no try block: a rejection
\* leaves the while loop and rejects runAgent's promise
OnRequestError == "threw"

ModelFail ==
  /\ Running /\ pc = "awaitModel"
  /\ modelInFlight' = modelInFlight - 1
  /\ pc' = OnRequestError
  /\ shell' = AfterThrow(variant, mode).shell
  /\ reported' = reported + AfterThrow(variant, mode).reported
  /\ UNCHANGED <<variant, argv, mode, fuel, lastInput, runs, messages,
                 response, idx, hasToolUse, toolResults, issued, toolResponses,
                 countVars, execLog, toolVars, sessionStats>>

\* entries of execLog: executeTool was called for a block, and what it returned
Started(id) == [ev |-> "start", id |-> id, text |-> <<>>]
Ended(id, text) == [ev |-> "end", id |-> id, text |-> text]

ToolResult(id, text) == [type |-> "tool_result", tool_use_id |-> id, content |-> text]

\* mutant: a result whose text is an error is not recorded
PushResult_DropErrors(results, block, text) ==
  IF text # <<>> /\ text[1] = "Error: " THEN results
  ELSE Append(results, ToolResult(block.id, text))

\* mutant: unshift instead of push
PushResult_Unshift(results, block, text) == <<ToolResult(block.id, text)>> \o results

\* toolResults.push({ type: "tool_result", tool_use_id: block.id, content: result })
PushResult(results, block, text) == Append(results, ToolResult(block.id, text))

\* one pass of `for (const block of response.content)` up to the next await
StepBlock ==
  /\ Running /\ pc = "process" /\ idx <= Len(response.content)
  /\ LET block == response.content[idx] IN
       CASE block.type = "text" ->
              /\ idx' = idx + 1
              /\ UNCHANGED <<pc, hasToolUse, toolResults, execLog, toolVars>>
         [] block.type = "tool_use" /\ block.name = "bash" ->
              /\ hasToolUse' = TRUE
              /\ \E o \in Outcomes(block.input.command) :
                   proc' = [outcome |-> o, pending |-> ProcEvents(o)]
              /\ promise' = Unresolved
              /\ toolInFlight' = toolInFlight + 1
              /\ execLog' = Append(execLog, Started(block.id))
              /\ pc' = "awaitTool"
              /\ UNCHANGED <<idx, toolResults, late, fs>>
         [] OTHER ->
              LET r == ExecuteSync(variant, block.name, block.input, fs) IN
              /\ hasToolUse' = TRUE
              /\ fs' = r.fs
              /\ toolResults' = PushResult(toolResults, block, r.result)
              /\ execLog' = execLog \o << Started(block.id), Ended(block.id, r.result) >>
              /\ idx' = idx + 1
              /\ UNCHANGED <<pc, proc, promise, late, toolInFlight>>
  /\ UNCHANGED <<shellVars, messages, response, issued, toolResponses,
                 countVars, modelInFlight, sessionStats>>

\* resolve(): a promise keeps the first value it is resolved with
Resolve(pr, text) == IF pr.resolved THEN pr ELSE [resolved |-> TRUE, value |-> text]

\* the child of the bash call being awaited emits "close" or "error"
ProcEvent(e) ==
  /\ shell # "crashed"
  /\ pc = "awaitTool"
  /\ e \in proc.pending
  /\ proc' = [proc EXCEPT !.pending = @ \ {e}]
  /\ IF e = "close"
       THEN /\ promise' = Resolve(promise, BashCloseText(variant, proc.outcome))
            /\ UNCHANGED shell
       ELSE IF HasErrorListener(variant)
         THEN /\ promise' = Resolve(promise, BashErrorText(variant, proc.outcome))
              /\ UNCHANGED shell
         ELSE /\ shell' = "crashed"
              /\ UNCHANGED promise
  /\ UNCHANGED <<variant, argv, mode, fuel, lastInput, runs, reported,
                 loopVars, countVars, late, toolInFlight, fs, modelInFlight,
                 sessionStats>>

\* an event of a child whose promise the loop has already consumed
LateEvent(e) ==
  /\ shell # "crashed"
  /\ e \in late
  /\ late' = late \ {e}
  /\ shell' = IF e = "error" /\ ~HasErrorListener(variant) THEN "crashed" ELSE shell
  /\ UNCHANGED <<variant, argv, mode, fuel, lastInput, runs, reported,
                 loopVars, countVars, proc, promise, toolInFlight, fs,
                 modelInFlight, sessionStats>>

\* `const result = await executeTool(...)` resumes with the bash result
ToolResume ==
  /\ Running /\ pc = "awaitTool" /\ promise.resolved
  /\ toolResults' = PushResult(toolResults, response.content[idx], promise.value)
  /\ execLog' = Append(execLog, Ended(response.content[idx].id, promise.value))
  /\ idx' = idx + 1
  /\ pc' = "process"
  /\ toolInFlight' = toolInFlight - 1
  /\ late' = late \cup proc.pending
  /\ proc' = NoProc
  /\ promise' = Unresolved
  /\ UNCHANGED <<shellVars, messages, response, hasToolUse, issued,
                 toolResponses, countVars, fs, modelInFlight, sessionStats>>

\* mutant: the stop reason alone ends the loop
LoopDecision_StopReason(v, htu, sr) ==
  IF sr = "end_turn" THEN "break" ELSE IF htu THEN "continue" ELSE "break"

\* the tail of the while body: "continue" loops, "break" leaves runAgent
LoopDecision(v, htu, sr) ==
  IF htu
    THEN IF v = "single" /\ sr = "end_turn" /\ ~htu THEN "break" ELSE "continue"
    ELSE "break"

\* mutant: the tool results are pushed before the reply they answer
PushTurns_ResultsFirst(msgs, content, htu, results) ==
  IF htu
    THEN msgs \o << UserBlocks(results), AssistantTurn(content) >>
    ELSE Append(msgs, AssistantTurn(content))

\* mutant: only the latest exchange is kept
PushTurns_KeepLast(msgs, content, htu, results) ==
  IF htu
    THEN << AssistantTurn(content), UserBlocks(results) >>
    ELSE Append(msgs, AssistantTurn(content))

\* mutant: the final reply is not added to the history
PushTurns_DropFinal(msgs, content, htu, results) ==
  IF htu
    THEN msgs \o << AssistantTurn(content), UserBlocks(results) >>
    ELSE msgs

\* messages.push(assistant); if (hasToolUse) messages.push(user tool results)
PushTurns(msgs, content, htu, results) ==
  IF htu
    THEN msgs \o << AssistantTurn(content), UserBlocks(results) >>
    ELSE Append(msgs, AssistantTurn(content))

FinishIteration ==
  /\ Running /\ pc = "process" /\ idx > Len(response.content)
  /\ messages' = PushTurns(messages, response.content, hasToolUse, toolResults)
  /\ IF LoopDecision(variant, hasToolUse, response.stop_reason) = "continue"
       THEN pc' = "call" /\ UNCHANGED shell
       ELSE pc' = "returned" /\ shell' = AfterReturn(mode)
  /\ UNCHANGED <<variant, argv, mode, fuel, lastInput, runs, reported,
                 response, idx, hasToolUse, toolResults, issued, toolResponses,
                 countVars, execLog, toolVars, modelInFlight, sessionStats>>

Next ==
  \/ Main
  \/ \E input \in Lines : Line(input)
  \/ IssueCall
  \/ \E bs \in BlockSeqs(fuel), sr \in StopReasons(variant) : ModelRespond(bs, sr)
  \/ ModelFail
  \/ StepBlock
  \/ \E e \in {"close", "error"} : ProcEvent(e)
  \/ \E e \in {"close", "error"} : LateEvent(e)
  \/ ToolResume
  \/ FinishIteration

Spec == Init /\ [][Next]_vars

TypeOK ==
  /\ shell \in {"start", "prompting", "running", "closed", "exited", "crashed"}
  /\ pc \in {"idle", "call", "awaitModel", "process", "awaitTool", "returned", "threw"}
  /\ modelInFlight \in Nat /\ toolInFlight \in Nat

\* ------------------------------------------------- the executor on its own
\* the longest reply handed to the executor
MaxToolCalls == 2

WriteFile(p, c) == ToolUse("write_file", [NoInput EXCEPT !.path = p, !.content = c])
ReadFile(p) == ToolUse("read_file", [NoInput EXCEPT !.path = p])
ListDir(p) == ToolUse("list_dir", [NoInput EXCEPT !.path = p])
Bash(cmd) == ToolUse("bash", [NoInput EXCEPT !.command = <<cmd>>])
Grep(p, pat) == ToolUse("grep_search", [NoInput EXCEPT !.path = p, !.pattern = pat])
GrepIn(p, pat, rec, exts) ==
  ToolUse("grep_search", [NoInput EXCEPT !.path = p, !.pattern = pat,
                                         !.recursive = rec, !.file_extensions = exts])

\* the tool requests the executor is tried on: every tool, with good
\* arguments and with each kind of bad argument
ToolBlocks ==
  { WriteFile(<< <<"n">> >>, << <<"x", "y">> >>),
    WriteFile(<< <<"a">> >>, << <<>> >>),
    WriteFile(<< <<"n">> >>, << <<LoneSurrogate>> >>),
    WriteFile(<<DevNull>>, << <<"x">> >>),
    WriteFile(<< <<"a">> >>, <<>>),
    WriteFile(<< <<"d">> >>, << <<"x">> >>),
    WriteFile(<<>>, << <<"x">> >>),
    ReadFile(<< <<"n">> >>), ReadFile(<< <<"a">> >>), ReadFile(<<DevNull>>),
    ReadFile(<< <<"d">> >>), ReadFile(<<>>),
    ListDir(<< <<"d">> >>), ListDir(<< <<"a">> >>), ListDir(<< <<"n">> >>),
    Bash(ExitZero), Bash(ExitSeven), Bash(EchoBlank), Bash(LsMissing),
    Grep(<< <<"d">> >>, <<"foo">>), Grep(<< <<"d">> >>, <<"zzz">>),
    Grep(<< <<"d">> >>, <<BadRegex>>), Grep(<< <<"n">> >>, <<"foo">>),
    Grep(<< <<>> >>, <<"x">>),
    ListDir(<< <<"t">> >>), ListDir(<< <<>> >>),
    ToolUse("delete_file", [NoInput EXCEPT !.path = << <<"a">> >>]),
    Grep(<< <<"t">> >>, <<"bar">>),
    Grep(<< <<"t", "u">> >>, <<"bar">>),
    GrepIn(<< <<"t">> >>, <<"bar">>, <<FALSE>>, <<>>),
    GrepIn(<< <<"t">> >>, <<"bar">>, <<TRUE>>, <<".ts">>),
    GrepIn(<< <<"t">> >>, <<"baz">>, <<>>, <<".js", ".ts">>) }

ToolReplies == UNION { [1..n -> ToolBlocks] : n \in 1..MaxToolCalls }

\* the loop has just received its first reply, made of tool requests only
ToolInit ==
  /\ variant \in Variants
  /\ argv = <<>>
  /\ mode = "interactive"
  /\ shell = "running"
  /\ fuel = 0
  /\ lastInput = <<"g", "o">>
  /\ runs = 1
  /\ reported = 0
  /\ pc = "process"
  /\ messages = << UserText(<<"g", "o">>) >>
  /\ \E bs \in ToolReplies :
       /\ response = [content |-> WithIds(1, bs),
                      stop_reason |-> IF variant = "single" THEN "tool_use" ELSE "unread"]
       /\ toolCount = Len(bs)
  /\ idx = 1
  /\ hasToolUse = FALSE
  /\ toolResults = <<>>
  /\ issued = 1
  /\ toolResponses = 1
  /\ totalIssued = 1
  /\ request = Request(variant, messages)
  /\ execLog = <<>>
  /\ proc = NoProc
  /\ promise = Unresolved
  /\ late = {}
  /\ modelInFlight = 0
  /\ toolInFlight = 0
  /\ fs = InitFs
  /\ sessionStats =
       IF variant = "modular"
         THEN updateContextUsage(
                calculateTokenUsage(variant, messages, SystemPrompt(variant), response),
                [NoStats EXCEPT !.requestCount = 1])
         ELSE NoStats

ToolNext ==
  \/ StepBlock
  \/ \E e \in {"close", "error"} : ProcEvent(e)
  \/ \E e \in {"close", "error"} : LateEvent(e)
  \/ ToolResume
  \/ FinishIteration

ToolSpec == ToolInit /\ [][ToolNext]_vars

\* ------------------------------------------------------------------ claims
InRun == pc \in {"call", "awaitModel", "process", "awaitTool"}

ResultIds(bs) == [i \in 1..Len(bs) |-> bs[i].tool_use_id]

Occurrences(seq, x) == Cardinality({ i \in 1..Len(seq) : seq[i] = x })

Range(seq) == { seq[i] : i \in 1..Len(seq) }

\* the most recent assistant turn of the transcript, 0 if there is none
LastAssistant ==
  IF \E i \in 1..Len(messages) : messages[i].role = "assistant"
    THEN CHOOSE i \in 1..Len(messages) :
           /\ messages[i].role = "assistant"
           /\ \A j \in (i + 1)..Len(messages) : messages[j].role # "assistant"
    ELSE 0

\* C1: whenever a model request is in flight after a reply that held tool_use
\* blocks, the last turn of the transcript is a user turn made only of
\* tool_result blocks, and every identifier of the preceding assistant turn's
\* tool_use blocks occurs in it exactly once, with no other identifier.
C1_EveryRequestAnswered ==
  (pc = "awaitModel" /\ LastAssistant > 0
     /\ HasToolUseBlock(messages[LastAssistant].blocks))
  => LET n == Len(messages)
         ids == ToolUseIds(messages[LastAssistant].blocks)
     IN /\ LastAssistant = n - 1
        /\ messages[n].role = "user" /\ messages[n].kind = "blocks"
        /\ \A i \in 1..Len(messages[n].blocks) :
             messages[n].blocks[i].type = "tool_result"
        /\ Len(messages[n].blocks) = Len(ids)
        /\ \A id \in Range(ids) : Occurrences(ResultIds(messages[n].blocks), id) = 1
        /\ Range(ResultIds(messages[n].blocks)) \subseteq Range(ids)

C1_Witness ==
  /\ pc = "awaitModel" /\ issued = 2
  /\ Len(ToolUseIds(messages[2].blocks)) = 2
  /\ Len(messages[3].blocks) = 2

\* C2: the tool_use blocks of a reply are executed one after another in the
\* order of the reply (each execution starts only after the previous one has
\* returned), the i-th tool_result carries the identifier and the returned
\* text of the i-th request, and all of them are in the transcript before
\* the next model request is issued.
C2_SequentialInOrder ==
  LET ids == ToolUseIds(response.content) IN
  /\ Len(execLog) <= 2 * Len(ids)
  /\ \A k \in 1..Len(execLog) :
       /\ execLog[k].ev = (IF k % 2 = 1 THEN "start" ELSE "end")
       /\ execLog[k].id = ids[(k + 1) \div 2]
  /\ Len(toolResults) = Len(execLog) \div 2
  /\ \A i \in 1..Len(toolResults) :
       /\ toolResults[i].tool_use_id = ids[i]
       /\ toolResults[i].content = execLog[2 * i].text
  /\ ((pc = "call" /\ issued >= 1) \/ (pc = "awaitModel" /\ issued >= 2))
       => /\ Len(execLog) = 2 * Len(ids)
          /\ messages[Len(messages)].blocks = toolResults

C2_Witness ==
  /\ pc = "awaitModel" /\ issued = 2
  /\ Len(toolResults) = 2
  /\ response.content[1].name = "bash"
  /\ response.content[2].name = "read_file"

\* C3: a model request is issued after a reply only if the reply held a
\* tool_use block; when the for loop over a reply's blocks has ended, the
\* loop continues with another request if and only if the reply holds at
\* least one tool_use block, and otherwise runAgent returns, whatever the
\* reply's stop reason and text blocks are.
C3_LoopIffToolUse ==
  /\ [](issued <= toolResponses + 1)
  /\ [](pc = "returned" =>
          issued = toolResponses + 1 /\ ~HasToolUseBlock(response.content))
  /\ [][(pc = "process" /\ pc' \notin {"process", "awaitTool"})
          => /\ (pc' = "call") <=> HasToolUseBlock(response.content)
             /\ (pc' = "returned") <=> ~HasToolUseBlock(response.content)]_vars

C3_Witness ==
  /\ variant = "single"
  /\ pc = "call" /\ issued = 1
  /\ response.stop_reason = "end_turn"
  /\ Len(response.content) = 2
  /\ response.content[1].type = "tool_use"
  /\ response.content[2].type = "text"

IsToolResultTurn(m) ==
  /\ m.role = "user" /\ m.kind = "blocks"
  /\ m.blocks # <<>>
  /\ \A i \in 1..Len(m.blocks) : m.blocks[i].type = "tool_result"

\* C4: when runAgent has returned after k model requests its transcript has
\* exactly 2k turns: the user prompt, then for each of the first k-1 replies
\* the assistant turn and one user turn of tool results, then the final
\* assistant turn; and when the first reply holds no tool_use block the run
\* has ended after one request with exactly two turns.
C4_TranscriptShape ==
  /\ pc = "returned" =>
       /\ issued >= 1
       /\ Len(messages) = 2 * issued
       /\ messages[1].role = "user" /\ messages[1].kind = "text"
       /\ \A j \in 1..(issued - 1) :
            /\ messages[2 * j].role = "assistant"
            /\ IsToolResultTurn(messages[2 * j + 1])
       /\ messages[2 * issued].role = "assistant"
  /\ (Len(messages) >= 2 /\ ~HasToolUseBlock(messages[2].blocks)) =>
       pc = "returned" /\ issued = 1 /\ Len(messages) = 2

C4_Witness ==
  /\ pc = "returned" /\ issued = 2 /\ Len(messages) = 4
  /\ Len(messages[3].blocks) = 2

\* C5: executeTool always completes by returning a text to the loop: the
\* process never dies with a tool call that has not returned.
C5_ExecuteToolAlwaysReturns == shell = "crashed" => toolInFlight = 0

\* a result text that reports a failure of the tool
IsFailureText(t) ==
  \E k \in 1..Len(t) :
    \/ t[k] \in {"Error: ", "X Exit code: "}
    \/ t[k] = "Exit code: " /\ k < Len(t) /\ t[k + 1] # "0"

\* a tool request of the reply being processed has failed
ToolFailed ==
  /\ pc \in {"process", "awaitTool"}
  /\ \/ \E i \in 1..Len(toolResults) : IsFailureText(toolResults[i].content)
     \/ pc = "awaitTool" /\ ~proc.outcome.spawned

\* C6: a failing tool never aborts the Turn Loop: while a reply in which a
\* tool request failed is being processed, the run stays alive (the failure
\* becomes a tool_result and the remaining requests and the next model
\* request follow).
C6_ToolErrorNeverAborts == ToolFailed => shell = "running"

NumAssistant(msgs) == Cardinality({ i \in 1..Len(msgs) : msgs[i].role = "assistant" })

\* C7: every iteration issues exactly one model request (requests issued =
\* assistant turns appended, plus the one whose reply is awaited, being
\* processed or has failed); a failed request is not retried: runAgent is
\* left at once with the transcript as it was, no tool is executed, no further
\* request is issued by that run, and the shell gets control back.
C7_FailedRequestEndsRun ==
  /\ [](issued = NumAssistant(messages)
                 + (IF pc \in {"awaitModel", "process", "awaitTool", "threw"}
                      THEN 1 ELSE 0))
  /\ [](pc = "threw" =>
          /\ shell # "running"
          /\ modelInFlight = 0 /\ toolInFlight = 0
          /\ messages[Len(messages)].role = "user")
  /\ [][(pc = "awaitModel" /\ pc' # "awaitModel" /\ pc' # "process")
          => /\ pc' = "threw"
             /\ UNCHANGED <<messages, issued, totalIssued, execLog, toolResults>>]_vars
  /\ [][(pc = "threw" /\ runs' = runs)
          => /\ pc' = "threw"
             /\ UNCHANGED <<messages, issued, totalIssued, execLog, toolResults>>]_vars

C7_Witness ==
  /\ pc = "threw" /\ issued = 2 /\ Len(messages) = 3
  /\ shell = "prompting"

\* C8: when a run ends with a failed model request, the interactive shell
\* reports the failure and prompts again; in one-shot mode the process exits.
C8_ShellSurvivesLoopError ==
  [][(pc = "awaitModel" /\ pc' = "threw")
       => IF mode = "interactive"
            THEN shell' = "prompting" /\ reported' = reported + 1
            ELSE shell' = "exited"]_vars

\* C9: at most one model request and at most one tool execution are in
\* flight, never both at once, and no question is pending (so no new run can
\* start) while a run is in progress.
C9_OneAtATime ==
  /\ modelInFlight <= 1
  /\ toolInFlight <= 1
  /\ modelInFlight + toolInFlight <= 1
  /\ shell = "prompting" => ~InRun /\ modelInFlight = 0 /\ toolInFlight = 0

C9_Witness == runs = 2 /\ toolInFlight = 1 /\ modelInFlight = 0

LetterPairs ==
  { <<"e", "E">>, <<"x", "X">>, <<"i", "I">>, <<"t", "T">>, <<"h", "H">>,
    <<"l", "L">>, <<"p", "P">>, <<"c", "C">>, <<"a", "A">>, <<"r", "R">> }

SameLetter(a, b) == a = b \/ <<a, b>> \in LetterPairs \/ <<b, a>> \in LetterPairs

\* the line is the word, in any letter case
IsWord(l, w) == Len(l) = Len(w) /\ \A i \in 1..Len(w) : SameLetter(l[i], w[i])

IsBlankLine(l) == \A i \in 1..Len(l) : l[i] \in {" ", "\t"}

\* the step in which the question callback takes a line
TakesLine == shell = "prompting" /\ fuel' < fuel

\* C10 as stated: every line that is not blank and not `exit` starts exactly
\* one run, the next prompt comes only after the run; a blank line starts no
\* run, issues no request and reprompts at once.
C10_EveryLineStartsRun ==
  /\ [][TakesLine =>
          /\ (~IsBlankLine(lastInput') /\ ~IsWord(lastInput', ExitWord))
               => runs' = runs + 1 /\ shell' = "running" /\ pc' = "call"
          /\ IsBlankLine(lastInput')
               => runs' = runs /\ shell' = "prompting" /\ totalIssued' = totalIssued
                  /\ UNCHANGED pc]_vars
  /\ [](shell = "prompting" => ~InRun)

\* the lines the enhanced shell answers itself
IsBuiltinLine(v, l) == v = "enhanced" /\ (IsWord(l, ClearWord) \/ IsWord(l, HelpWord))

\* C10 amended: every line that is not blank, not `exit` and, in the enhanced
\* agent, not `clear` or `help` starts exactly one run, the next prompt comes
\* only after the run; a blank line, and `clear` or `help` in the enhanced
\* agent, start no run, issue no request and reprompt at once.
C10_LineStartsRunUnlessBuiltin ==
  /\ [][TakesLine =>
          /\ (/\ ~IsBlankLine(lastInput')
              /\ ~IsWord(lastInput', ExitWord)
              /\ ~IsBuiltinLine(variant, lastInput'))
               => runs' = runs + 1 /\ shell' = "running" /\ pc' = "call"
          /\ (IsBlankLine(lastInput') \/ IsBuiltinLine(variant, lastInput'))
               => runs' = runs /\ shell' = "prompting" /\ totalIssued' = totalIssued
                  /\ UNCHANGED pc]_vars
  /\ [](shell = "prompting" => ~InRun)

C10_Witness ==
  /\ variant = "enhanced"
  /\ IsWord(lastInput, HelpWord)
  /\ shell = "prompting" /\ runs = 1 /\ totalIssued = 1

\* C11: a line that is `exit` in any letter case closes the session without
\* starting a run or issuing a request, and once the session is closed no
\* line is taken, no run starts and no request is issued any more.
C11_ExitEndsSession ==
  /\ [][(TakesLine /\ IsWord(lastInput', ExitWord))
          => /\ shell' = "closed"
             /\ runs' = runs /\ totalIssued' = totalIssued
             /\ UNCHANGED <<pc, messages>>]_vars
  /\ [][shell = "closed"
          => /\ shell' \in {"closed", "crashed"}
             /\ UNCHANGED <<lastInput, fuel, runs, totalIssued, pc, messages>>]_vars

C11_Witness ==
  /\ shell = "closed" /\ lastInput = <<"E", "x", "i", "t">>
  /\ runs = 1 /\ totalIssued = 1 /\ fuel > 0

\* C12: with no command-line argument the program enters the interactive
\* shell; with one or more arguments, whatever they are, it runs one Turn
\* Loop on the arguments joined by single spaces, takes no interactive line,
\* and exits when that run has returned.
C12_EntryModeByArgCount ==
  mode # "none" =>
    IF argv = <<>>
      THEN mode = "interactive"
      ELSE /\ mode = "oneshot"
           /\ runs = 1 /\ lastInput = <<>> /\ shell # "prompting"
           /\ messages[1] = UserText(joinArgs(argv, <<" ">>))
           /\ pc = "returned" => shell = "exited"

\* a failure reached the top level: the runtime aborted the process, or the
\* one-shot run rejected out of main
TopLevelFailure == shell = "crashed" \/ (mode = "oneshot" /\ pc = "threw")

\* C13: the exit code is 0 when the session ends gracefully and nonzero when
\* a failure reaches the top level.
C13_ExitCodeContract == Terminated => (ExitCode(shell) = 0 <=> ~TopLevelFailure)

\* C14: in the agent that keeps Session Statistics, requestCount equals the
\* number of model requests issued so far, and it never decreases.
C14_RequestCountCountsRequests ==
  /\ [](variant = "modular" => sessionStats.requestCount = totalIssued)
  /\ [][sessionStats'.requestCount >= sessionStats.requestCount]_vars

\* the text returned for a block of the reply being processed
Answered(i) == i <= Len(toolResults) /\ toolResults[i].tool_use_id = response.content[i].id
ResultText(i) == toolResults[i].content

\* a write_file request directly followed by a read_file request for the
\* same path, both answered, the write with success
WriteThenRead(i) ==
  /\ i + 1 <= Len(response.content)
  /\ response.content[i].name = "write_file"
  /\ response.content[i + 1].name = "read_file"
  /\ response.content[i].input.path # <<>>
  /\ response.content[i].input.content # <<>>
  /\ response.content[i + 1].input.path = response.content[i].input.path
  /\ Answered(i) /\ Answered(i + 1)
  /\ Contains(ResultText(i), "Written to ")

\* C15 as stated: for every path and every content string, a successful
\* write_file followed directly by read_file of the same path returns
\* exactly the content written.
C15_RoundTripEveryString ==
  \A i \in 1..Len(response.content) :
    WriteThenRead(i) => ResultText(i + 1) = response.content[i].input.content[1]

\* C15 amended: for every path that names a regular file after the write and
\* every content string without unpaired surrogates (the empty string
\* included), a successful write_file followed directly by read_file of the
\* same path returns exactly the content written.
C15_RoundTripWellFormed ==
  \A i \in 1..Len(response.content) :
    (/\ WriteThenRead(i)
     /\ ~Contains(response.content[i].input.content[1], LoneSurrogate)
     /\ Lookup(fs, resolvePath(response.content[i].input.path[1])).kind = "file")
      => ResultText(i + 1) = response.content[i].input.content[1]

C15_Witness ==
  /\ WriteThenRead(1)
  /\ response.content[1].input.path = << <<"a">> >>
  /\ response.content[1].input.content = << <<>> >>
  /\ InitFs[FileA].content # <<>>
  /\ ResultText(2) = <<>>

\* the step in which the loop executes a write_file request
WritesFile ==
  /\ pc = "process" /\ idx <= Len(response.content) /\ idx' = idx + 1
  /\ response.content[idx].name = "write_file"

RequiredFieldError == "Error: content parameter is required but was not provided"

\* C16: write_file without `content` returns the error of the explicit
\* required-field check and leaves the filesystem as it was; with `content`
\* present (the empty string included) a successful write replaces the whole
\* content of the file.
C16_ContentRequired ==
  [][WritesFile =>
       LET input == response.content[idx].input
           text == toolResults'[Len(toolResults')].content
       IN IF input.content = <<>>
            THEN /\ fs' = fs
                 /\ Contains(text, RequiredFieldError)
            ELSE Contains(text, "Written to ")
                   => \/ fs'[resolvePath(input.path[1])].kind = "chardev"
                      \/ fs'[resolvePath(input.path[1])].content = utf8Encode(input.content[1])]_vars

\* the awaited bash child has exited with a code and the promise is settled
BashExited == pc = "awaitTool" /\ promise.resolved /\ proc.outcome.spawned

ExitCodeLabels == {"Exit code: ", "OK Exit code: ", "X Exit code: "}
StderrLabels == {"\nStderr: ", "Stderr:"}

\* text t reports the code and, somewhere after it, the tokens of out
ReportsCodeThen(t, code, out) ==
  \E k \in 1..(Len(t) - 1) :
    /\ t[k] \in ExitCodeLabels /\ t[k + 1] = code
    /\ \E j \in (k + 2)..(Len(t) + 1 - Len(out)) : SubSeq(t, j, j + Len(out) - 1) = out

HasStderrSection(t) == \E k \in 1..Len(t) : t[k] \in StderrLabels

IsBlankText(t) == \A k \in 1..Len(t) : t[k] \in {" ", "\n", "\t"}

\* s is t without its leading and trailing whitespace
TrimOf(t, s) ==
  \E i, j \in 0..Len(t) :
    /\ i + j <= Len(t)
    /\ s = SubSeq(t, i + 1, Len(t) - j)
    /\ IsBlankText(SubSeq(t, 1, i))
    /\ IsBlankText(SubSeq(t, Len(t) - j + 1, Len(t)))
    /\ s = <<>> \/ (~IsBlankText(<<s[1]>>) /\ ~IsBlankText(<<s[Len(s)]>>))

\* C17 as stated: for a command that exits with code n the result reports n
\* followed by the collected standard output, and has a labelled
\* standard-error section exactly when the collected standard error is
\* nonempty.
C17_BashReportsCollectedOutput ==
  BashExited =>
    /\ ReportsCodeThen(promise.value, proc.outcome.code, proc.outcome.stdout)
    /\ HasStderrSection(promise.value) <=> proc.outcome.stderr # <<>>

\* C17 amended: for a command that exits with code n the result reports n
\* followed by the collected standard output, and has a labelled
\* standard-error section exactly when the collected standard error is
\* nonempty; the enhanced agent reports both outputs with leading and
\* trailing whitespace removed and has the section exactly when the
\* standard error is not blank.
C17_BashReportsOutput ==
  BashExited =>
    IF variant = "enhanced"
      THEN /\ \E a, b \in 1..(Len(proc.outcome.stdout) + 1) :
                /\ TrimOf(proc.outcome.stdout, SubSeq(proc.outcome.stdout, a, b - 1))
                /\ ReportsCodeThen(promise.value, proc.outcome.code,
                                   SubSeq(proc.outcome.stdout, a, b - 1))
           /\ HasStderrSection(promise.value) <=> ~IsBlankText(proc.outcome.stderr)
      ELSE /\ ReportsCodeThen(promise.value, proc.outcome.code, proc.outcome.stdout)
           /\ HasStderrSection(promise.value) <=> proc.outcome.stderr # <<>>

C17_Witness ==
  /\ variant = "enhanced"
  /\ BashExited
  /\ proc.outcome.code = "7"
  /\ ~HasStderrSection(promise.value)
  /\ Len(toolResults) = 1
  /\ Contains(toolResults[1].content, "ls: missing")
  /\ HasStderrSection(toolResults[1].content)

\* an event of the child of the bash call the loop is waiting for
ChildEvent ==
  /\ pc = "awaitTool" /\ pc' = "awaitTool"
  /\ proc'.outcome = proc.outcome /\ proc'.pending # proc.pending

\* C18: whichever event the child of a bash call emits, and in whatever
\* order, the call has a result afterwards and the process lives on; a failed
\* spawn gives a textual error; a result once produced is never changed by a
\* later event.
C18_BashYieldsOneResult ==
  /\ [][ChildEvent => promise'.resolved /\ shell' = shell]_vars
  /\ [][(ChildEvent /\ ~promise.resolved /\ "error" \notin proc'.pending
           /\ "error" \in proc.pending)
          => promise'.resolved /\ promise'.value[1] = "Error: "]_vars
  /\ [][(promise.resolved /\ promise'.resolved) => promise'.value = promise.value]_vars

\* the arguments of the request are invalid for the filesystem f
InvalidArguments(v, block, f) ==
  LET input == block.input
      node == IF input.path = <<>> THEN Absent ELSE Lookup(f, resolvePath(input.path[1]))
  IN CASE block.name = "read_file" -> node.kind \in {"absent", "dir"}
       [] block.name = "list_dir" -> node.kind # "dir"
       [] block.name = "write_file" -> input.content = <<>>
       [] block.name = "grep_search" -> v = "enhanced" /\ input.pattern = <<BadRegex>>
       [] OTHER -> FALSE

\* the texts that begin with the error marker
ErrorMarkers ==
  { "Error: ", "Error reading file: ", "Error reading directory: ",
    "Error writing file: ", "Error during search: ", RequiredFieldError }

\* the first token of a text, colour codes aside
VisibleHead(t) == IF t[1] = "ESC[" THEN t[3] ELSE t[1]

\* the step in which the loop executes a request that returns at once
ExecutesSync ==
  /\ pc = "process" /\ idx <= Len(response.content) /\ idx' = idx + 1
  /\ Len(toolResults') = Len(toolResults) + 1

\* C19: the text returned for a request with invalid arguments begins with
\* the error marker `Error` (colour codes are not counted).
C19_InvalidArgumentsGiveErrorPrefix ==
  [][(ExecutesSync /\ InvalidArguments(variant, response.content[idx], fs))
       => LET text == toolResults'[Len(toolResults')].content
          IN text # <<>> /\ VisibleHead(text) \in ErrorMarkers]_vars

\* a text without its colour codes
Visible(t) ==
  LET F[i \in 0..Len(t)] ==
        IF i = 0 THEN <<>>
        ELSE IF t[i] = "ESC[" \/ (i > 1 /\ t[i - 1] = "ESC[") THEN F[i - 1]
        ELSE Append(F[i - 1], t[i])
  IN F[Len(t)]

HasSubSeq(t, u) == \E k \in 1..(Len(t) + 1 - Len(u)) : SubSeq(t, k, k + Len(u) - 1) = u

\* the lines of a file's text: line i lies between newline i-1 and newline i
NewlinesBefore(t, k) == Cardinality({ j \in 1..(k - 1) : t[j] = "\n" })
NumLines(t) == NewlinesBefore(t, Len(t) + 1) + 1
LineAt(t, i) ==
  LET ks == { k \in 1..Len(t) : t[k] # "\n" /\ NewlinesBefore(t, k) = i - 1 }
  IN [n \in 1..Cardinality(ks) |->
        t[CHOOSE k \in ks : Cardinality({ j \in ks : j < k }) = n - 1]]

\* the regular files at or below the target
FilesUnder(f, target) ==
  { q \in DOMAIN f : /\ f[q].kind \in {"file", "locked"}
                     /\ Len(q) >= Len(target)
                     /\ SubSeq(q, 1, Len(target)) = target }
\* the directory names on the way from the target down to a file below it
DirsBetween(target, q) == { q[k] : k \in (Len(target) + 1)..(Len(q) - 1) }
BeginsWithDot(name) == name \in {".git"}
\* the files a search of the target is to read: the target itself when it is
\* a file, else the files below it that no unsearched directory hides, of a
\* listed extension when a list is given, and that can be read
Scanned(f, target, input) ==
  { q \in FilesUnder(f, target) :
      /\ f[q].kind = "file"
      /\ input.recursive = <<FALSE>> => DirsBetween(target, q) = {}
      /\ \A n \in DirsBetween(target, q) : ~BeginsWithDot(n) /\ n # "node_modules"
      /\ input.file_extensions # <<>> =>
            \E k \in 1..Len(input.file_extensions) :
               input.file_extensions[k] = extname(q[Len(q)]) }
\* the lines of the scanned files that hold the word
ExpectedHits(f, target, input) ==
  { <<q, i>> \in Scanned(f, target, input) \X (1..4) :
      i <= NumLines(f[q].content) /\ Contains(LineAt(f[q].content, i), input.pattern[1]) }

\* the step in which the enhanced executor runs a grep_search whose target
\* exists and whose pattern is a word
Greps ==
  /\ ExecutesSync /\ variant = "enhanced"
  /\ response.content[idx].name = "grep_search"
  /\ response.content[idx].input.pattern # <<BadRegex>>
  /\ response.content[idx].input.pattern # <<>>
  /\ response.content[idx].input.path # <<>>
  /\ Lookup(fs, resolvePath(response.content[idx].input.path[1])).kind
       \in {"file", "locked", "dir"}

\* C20: grep_search gives one entry path:line_number:line for every matching
\* line of every scanned file, numbered from 1 within its file, and reports
\* as many matches as there are entries; without any match it gives the
\* no-matches message, not an empty text.
C20_GrepCitesEveryMatch ==
  [][Greps =>
       LET input == response.content[idx].input
           word == input.pattern[1]
           hits == ExpectedHits(fs, resolvePath(input.path[1]), input)
       IN \A text \in { Visible(toolResults'[Len(toolResults')].content) } :
          LET entries == { k \in 1..(Len(text) - 2) : text[k] = ":" /\ text[k + 2] = ":" }
          IN
          IF hits = {}
            THEN text # <<>> /\ text[1] = "No matches found for pattern: "
            ELSE /\ HasSubSeq(text, <<"Found ", ToString(Cardinality(hits)),
                                      " matches for pattern: ", word>>)
                 /\ Cardinality(entries) = Cardinality(hits)
                 /\ \A h \in hits :
                      HasSubSeq(text, SubSeq(h[1], Len(cwd) + 1, Len(h[1]))
                                      \o <<":", ToString(h[2]), ":">>
                                      \o LineAt(fs[h[1]].content, h[2]))]_vars

C20_Witness ==
  /\ variant = "enhanced"
  /\ Len(toolResults) = 1
  /\ response.content[1].name = "grep_search"
  /\ response.content[1].input.pattern = <<"foo">>
  /\ HasSubSeq(Visible(toolResults[1].content), <<"d", "f", ":", "3", ":", "foo", "bar">>)
  /\ HasSubSeq(Visible(toolResults[1].content), <<"Found ", "2">>)

\* the files a result text cites: those whose path relative to the working
\* directory opens an entry path:line_number:line
CitedFiles(f, text) ==
  { q \in FilesUnder(f, cwd) :
      \E i \in 1..4 : HasSubSeq(text, SubSeq(q, Len(cwd) + 1, Len(q))
                                      \o <<":", ToString(i), ":">>) }

\* C21: a grep_search of a directory reads the files of every nested
\* directory unless recursive is false (then only its own files), never
\* those below a directory named node_modules or beginning with a dot, and
\* with a nonempty file_extensions list only files of a listed extension; a
\* file that cannot be read is passed over and the search does not fail.
C21_GrepScansTheRightFiles ==
  [][(Greps /\ Lookup(fs, resolvePath(response.content[idx].input.path[1])).kind = "dir")
       => LET input == response.content[idx].input
              target == resolvePath(input.path[1])
          IN \A text \in { Visible(toolResults'[Len(toolResults')].content) } :
               /\ text # <<>> /\ text[1] # "Error during search: "
               /\ CitedFiles(fs, text) =
                    { q \in Scanned(fs, target, input) :
                        \E i \in 1..NumLines(fs[q].content) :
                           Contains(LineAt(fs[q].content, i), input.pattern[1]) }]_vars

C21_Witness ==
  /\ variant = "enhanced"
  /\ Len(toolResults) = 2
  /\ response.content[1].name = "grep_search"
  /\ response.content[1].input = Grep(<< <<"t">> >>, <<"bar">>).input
  /\ response.content[2].name = "grep_search"
  /\ response.content[2].input.recursive = <<FALSE>>
  /\ LET deep == Visible(toolResults[1].content)
         flat == Visible(toolResults[2].content)
     IN /\ HasSubSeq(deep, <<"Found ", "3">>)
        /\ HasSubSeq(deep, <<"t", "s", "g", ":", "1", ":", "bar">>)
        /\ ~HasSubSeq(deep, <<"node_modules">>) /\ ~HasSubSeq(deep, <<".git">>)
        /\ ~HasSubSeq(deep, <<"t", "u", ":">>)
        /\ HasSubSeq(flat, <<"Found ", "2">>)
        /\ ~HasSubSeq(flat, <<"t", "s", "g">>)

\* the line list_dir is to give for a child: its name, with / for a directory
ChildLine(f, q) == IF f[q].kind = "dir" THEN <<q[Len(q)], "/">> ELSE <<q[Len(q)]>>

\* the step in which the executor runs a list_dir with a path
ListsDir ==
  /\ ExecutesSync
  /\ response.content[idx].name = "list_dir"
  /\ response.content[idx].input.path # <<>>

\* C22: list_dir of an existing directory gives one line per immediate child
\* and no other line: each child once, nothing nested, a directory with a
\* trailing / and a file without; a path that is missing or not a directory
\* gives an error text (colour codes are not counted).
C22_ListDirOneLinePerChild ==
  [][ListsDir =>
       LET target == resolvePath(response.content[idx].input.path[1])
           kids == Children(fs, target)
       IN \A text \in { Visible(toolResults'[Len(toolResults')].content) } :
            IF Lookup(fs, target).kind = "dir"
              THEN LET lines == IF text = <<>> THEN <<>> ELSE splitLines(text)
                   IN /\ Len(lines) = Cardinality(kids)
                      /\ \A q \in kids :
                           Cardinality({ k \in 1..Len(lines) : lines[k] = ChildLine(fs, q) }) = 1
              ELSE text # <<>> /\ text[1] \in {"Error: ", "Error reading directory: "}]_vars

C22_Witness ==
  /\ Len(toolResults) = 2
  /\ response.content[1].name = "list_dir"
  /\ response.content[1].input.path = << <<"t">> >>
  /\ response.content[2].name = "list_dir"
  /\ response.content[2].input.path = << <<"n">> >>
  /\ LET lines == splitLines(Visible(toolResults[1].content))
     IN /\ Len(lines) = 6
        /\ \E k \in 1..6 : lines[k] = <<"s", "/">>
        /\ \E k \in 1..6 : lines[k] = <<"p.ts">>
        /\ \A k \in 1..6 : lines[k] # <<"g">>
  /\ Visible(toolResults[2].content)[2] = "Error: "
  /\ Visible(toolResults[2].content)[3] = "ENOENT"

\* the step in which client.messages.create is called
Requests == pc = "call" /\ pc' = "awaitModel"

IsPrefix(t, u) == Len(t) <= Len(u) /\ SubSeq(u, 1, Len(t)) = t

\* C23: every request carries the whole transcript so far: the k-th request
\* of a run has all 2k-1 turns, those of the request before it first and in
\* their order; the system prompt and the tools are those of the request
\* before, whichever run made it.
C23_RequestCarriesWholeTranscript ==
  [][Requests =>
       /\ request'.messages = messages
       /\ Len(request'.messages) = 2 * issued' - 1
       /\ issued >= 1 => IsPrefix(request.messages, request'.messages)
       /\ totalIssued >= 1 => /\ request'.system = request.system
                              /\ request'.tools = request.tools]_vars

C23_Witness ==
  /\ pc = "awaitModel"
  /\ runs = 2 /\ issued = 2 /\ totalIssued = 3
  /\ Len(request.messages) = 3
  /\ request.messages[1].kind = "text"
  /\ request.messages[2].role = "assistant"
  /\ request.messages[3].kind = "blocks" /\ request.messages[3].blocks # <<>>
  /\ request.tools = DeclaredTools(variant)

\* the turns are a user's, an assistant's, a user's, ... in this order
Alternates(msgs) ==
  \A i \in 1..Len(msgs) : msgs[i].role = (IF i % 2 = 1 THEN "user" ELSE "assistant")

\* C24: within a run the transcript changes only by turns added at its end;
\* its turns alternate between user and assistant, the first being a user
\* turn; when a request is made its last turn is a user turn; and every user
\* turn after the first holds tool_result blocks only.
C24_TranscriptAppendOnlyAlternating ==
  [][/\ runs' = runs => IsPrefix(messages, messages')
     /\ Alternates(messages')
     /\ Requests => messages # <<>> /\ messages[Len(messages)].role = "user"
     /\ \A i \in 2..Len(messages') :
          messages'[i].role = "user" => IsToolResultTurn(messages'[i])]_vars

C24_Witness ==
  /\ pc = "process" /\ issued = 2
  /\ Len(messages) = 3
  /\ messages[1].kind = "text"
  /\ Len(messages[3].blocks) = 2
  /\ messages[3].blocks[2].type = "tool_result"
  /\ HasToolUseBlock(response.content)

\* a line of the interactive shell starts a run
RunStarts == mode = "interactive" /\ runs' = runs + 1

\* the step in which the modular agent takes a reply into its statistics
CountsReply == variant = "modular" /\ pc = "awaitModel" /\ pc' = "process"

\* C25: in the interactive shell a run starts from a transcript that holds
\* the new prompt only, so its requests begin with that prompt and carry no
\* turn of an earlier run; the session statistics are taken over unchanged
\* by the next run and grow with every reply, never falling back.
C25_FreshTranscriptStatsCarryOver ==
  [][/\ RunStarts => /\ messages' = << UserText(lastInput') >>
                     /\ sessionStats' = sessionStats
     /\ (Requests /\ mode = "interactive")
          => /\ request'.messages[1] = UserText(lastInput)
             /\ \A i \in 2..Len(request'.messages) : request'.messages[i].kind # "text"
     /\ sessionStats'.requestCount >= sessionStats.requestCount
     /\ sessionStats'.totalTokens >= sessionStats.totalTokens
     /\ sessionStats'.currentConversationTokens >= sessionStats.currentConversationTokens
     /\ CountsReply => /\ sessionStats'.requestCount > sessionStats.requestCount
                       /\ sessionStats'.totalTokens > sessionStats.totalTokens
                       /\ sessionStats'.currentConversationTokens
                            > sessionStats.currentConversationTokens]_vars

C25_Witness ==
  /\ variant = "modular" /\ mode = "interactive"
  /\ runs = 2 /\ pc = "awaitModel" /\ issued = 1 /\ totalIssued = 3
  /\ request.messages = << UserText(lastInput) >>
  /\ sessionStats.requestCount > 0
  /\ sessionStats.totalTokens > sessionStats.currentConversationTokens
  /\ sessionStats.currentConversationTokens > 0

\* the step in which the loop hands the executor the block at idx
Executes ==
  /\ pc = "process" /\ idx <= Len(response.content)
  /\ idx' # idx \/ pc' # pc

\* the step in which the loop takes a result for the block at idx
TakesResult == Len(toolResults') = Len(toolResults) + 1

\* the step that ends the processing of a reply
Finishes == pc = "process" /\ idx > Len(response.content) /\ pc' # pc

IsUnknown(v, block) == block.type = "tool_use" /\ block.name \notin DeclaredTools(v)

\* C26: a request naming a tool the executor does not know touches neither
\* the files nor any process and is answered, under its identifier, by the
\* text `Unknown tool: <name>`; the loop then goes on to the next request to
\* the model. A request naming a declared tool is never answered by that
\* text (colour codes are not counted).
C26_UnknownToolIsAnsweredAsText ==
  [][/\ (Executes /\ IsUnknown(variant, response.content[idx]))
          => /\ fs' = fs /\ proc' = proc /\ toolInFlight' = toolInFlight
             /\ pc' = "process" /\ idx' = idx + 1
             /\ TakesResult
             /\ LET r == toolResults'[Len(toolResults')]
                IN /\ r.type = "tool_result"
                   /\ r.tool_use_id = response.content[idx].id
                   /\ Visible(r.content) = <<"Unknown tool: ", response.content[idx].name>>
     /\ (Finishes /\ \E i \in 1..Len(response.content) :
                        IsUnknown(variant, response.content[i]))
          => /\ pc' = "call"
             /\ messages'[Len(messages')] = UserBlocks(toolResults)
     /\ (TakesResult /\ response.content[idx].name \in DeclaredTools(variant))
          => \A text \in { Visible(toolResults'[Len(toolResults')].content) } :
               text = <<>> \/ text[1] # "Unknown tool: "]_vars

C26_Witness ==
  /\ pc = "call"
  /\ Len(response.content) = 2
  /\ response.content[1].name = "delete_file"
  /\ response.content[2].name = "grep_search"
  /\ Visible(toolResults[1].content) = <<"Unknown tool: ", "delete_file">>
  /\ toolResults[1].tool_use_id = response.content[1].id
  /\ Visible(toolResults[2].content) = <<"Unknown tool: ", "grep_search">>
  /\ messages[3] = UserBlocks(toolResults)
  /\ fs = InitFs

====
